---- MODULE Spec2Model ----
(***************************************************************************)
(* Model of src/telebot.py: the long-polling loop of TelegramBot.run with  *)
(* its single-instance lock file, the update cursor of get_updates, the    *)
(* command router process_message, the phrase store learn_phrase and the   *)
(* matcher find_similar_phrases / longest_common_substring.                *)
(*                                                                         *)
(* Python strings are sequences of one-character strings.                  *)
(***************************************************************************)
EXTENDS Integers, Sequences, FiniteSets, TLC

(***************************************************************************)
(* Bounds of the model.                                                    *)
(***************************************************************************)
\* number of bot processes started in the deployment directory
NumProcs == 2
\* largest update_id the server hands out during a run
MaxUpdateId == 2
\* longest word handed to longest_common_substring directly
MaxWordLen == 3
\* most lines the corpora hold together when process_message is called directly
MaxPhrases == 2

(***************************************************************************)
(* str helpers                                                             *)
(***************************************************************************)
UpperLetters == <<"A", "B", "C", "D", "E", "F", "G", "H", "I", "J", "K", "L", "M",
                  "N", "O", "P", "Q", "R", "S", "T", "U", "V", "W", "X", "Y", "Z">>

LowerLetters == <<"a", "b", "c", "d", "e", "f", "g", "h", "i", "j", "k", "l", "m",
                  "n", "o", "p", "q", "r", "s", "t", "u", "v", "w", "x", "y", "z">>

Digits == <<"0", "1", "2", "3", "4", "5", "6", "7", "8", "9">>

\* string.punctuation (without the grave accent, which a TLA+ string cannot
\* hold; no text of the model contains it)
Punctuation == {"!", "\"", "#", "$", "%", "&", "'", "(", ")", "*", "+", ",", "-",
                ".", "/", ":", ";", "<", "=", ">", "?", "@", "[", "\\", "]", "^",
                "_", "{", "|", "}", "~"}

\* the characters str.strip() and str.split() treat as white space
Whitespace == {" ", "\t", "\n", "\r"}

Range(s) == {s[i] : i \in 1..Len(s)}

\* str.isalnum() of one character
IsAlnum(c) == c \in Range(UpperLetters) \cup Range(LowerLetters) \cup Range(Digits)

LowerChar(c) ==
    IF \E i \in 1..Len(UpperLetters) : UpperLetters[i] = c
    THEN LowerLetters[CHOOSE i \in 1..Len(UpperLetters) : UpperLetters[i] = c]
    ELSE c

\* str.lower()
Lower(s) == [i \in 1..Len(s) |-> LowerChar(s[i])]

\* str.lstrip()
RECURSIVE LStrip(_)
LStrip(s) ==
    IF s # <<>> /\ Head(s) \in Whitespace THEN LStrip(Tail(s)) ELSE s

\* str.rstrip()
RECURSIVE RStrip(_)
RStrip(s) ==
    IF s # <<>> /\ s[Len(s)] \in Whitespace
    THEN RStrip(SubSeq(s, 1, Len(s) - 1))
    ELSE s

\* str.strip()
Strip(s) == RStrip(LStrip(s))

\* s.startswith(pat)
StartsWith(s, pat) == Len(s) >= Len(pat) /\ SubSeq(s, 1, Len(pat)) = pat

\* s.replace(pat, ''): remove the non-overlapping occurrences, left to right
RECURSIVE RemoveAll(_, _)
RemoveAll(s, pat) ==
    IF s = <<>> THEN <<>>
    ELSE IF StartsWith(s, pat)
         THEN RemoveAll(SubSeq(s, Len(pat) + 1, Len(s)), pat)
         ELSE <<Head(s)>> \o RemoveAll(Tail(s), pat)

\* s.translate(str.maketrans('', '', string.punctuation))
StripPunctuation(s) == SelectSeq(s, LAMBDA c : c \notin Punctuation)

\* s.split(' ', 1): cut at the first space only
SplitFirstSpace(s) ==
    IF \E i \in 1..Len(s) : s[i] = " "
    THEN LET k == CHOOSE i \in 1..Len(s) :
                      s[i] = " " /\ \A j \in 1..(i - 1) : s[j] # " "
         IN  <<SubSeq(s, 1, k - 1), SubSeq(s, k + 1, Len(s))>>
    ELSE <<s>>

\* s.split(): the maximal runs of non-white-space characters
RECURSIVE SplitWords(_)
SplitWords(s) ==
    LET t == LStrip(s)
    IN  IF t = <<>> THEN <<>>
        ELSE LET n == IF \E i \in 1..Len(t) : t[i] \in Whitespace
                      THEN (CHOOSE i \in 1..Len(t) :
                               t[i] \in Whitespace
                               /\ \A j \in 1..(i - 1) : t[j] \notin Whitespace) - 1
                      ELSE Len(t)
             IN  <<SubSeq(t, 1, n)>> \o SplitWords(SubSeq(t, n + 1, Len(t)))

\* str(n) of a small integer
IntStr(n) ==
    LET a == IF n < 0 THEN -n ELSE n
        ds == IF a < 10 THEN <<Digits[a + 1]>>
              ELSE <<Digits[(a \div 10) + 1], Digits[(a % 10) + 1]>>
    IN  IF n < 0 THEN <<"-">> \o ds ELSE ds


\* the lines a text file holds after the strings in `written` were written to
\* it, as iterating the file in text mode yields them (without line ends)
RECURSIVE SplitLines(_)
SplitLines(s) ==
    IF \E i \in 1..Len(s) : s[i] \in {"\n", "\r"}
    THEN LET k == CHOOSE i \in 1..Len(s) :
                      s[i] \in {"\n", "\r"}
                      /\ \A j \in 1..(i - 1) : s[j] \notin {"\n", "\r"}
         IN  <<SubSeq(s, 1, k - 1)>> \o SplitLines(SubSeq(s, k + 1, Len(s)))
    ELSE IF s = <<>> THEN <<>> ELSE <<s>>

RECURSIVE FileLines(_)
FileLines(written) ==
    IF written = <<>> THEN <<>>
    ELSE SplitLines(Head(written)) \o FileLines(Tail(written))

(***************************************************************************)
(* Optional[...] values                                                    *)
(***************************************************************************)
None == [some |-> FALSE, val |-> <<>>]

Some(v) == [some |-> TRUE, val |-> v]

(***************************************************************************)
(* Fixed texts of process_message                                          *)
(***************************************************************************)
HelpText ==
    <<"T", "e", "l", "e", "b", "o", "t", " ", "-", " ", "S", "i", "m", "p", "l", "e",
      " ", "T", "e", "l", "e", "g", "r", "a", "m", " ", "B", "o", "t", "\n", "C", "o",
      "m", "m", "a", "n", "d", "s", ":", "\n", "/", "h", "e", "l", "p", " ", "-", " ",
      "S", "h", "o", "w", " ", "h", "e", "l", "p", "\n", "/", "l", "e", "a", "r", "n",
      " ", "<", "p", "h", "r", "a", "s", "e", ">", " ", "-", " ", "T", "e", "a", "c",
      "h", " ", "b", "o", "t", " ", "a", " ", "p", "h", "r", "a", "s", "e", "\n", "/",
      "s", "t", "a", "r", "t", " ", "-", " ", "S", "t", "a", "r", "t", " ", "b", "o",
      "t">>

StopText == <<"B", "o", "t", " ", "s", "t", "o", "p", "p", "e", "d">>

StartText == <<"B", "o", "t", " ", "s", "t", "a", "r", "t", "e", "d", "!">>

LearnedText == <<"P", "h", "r", "a", "s", "e", " ", "l", "e", "a", "r", "n", "e", "d", "!">>

CmdHelp == <<"/", "h", "e", "l", "p">>

CmdStop == <<"/", "s", "t", "o", "p">>

CmdStart == <<"/", "s", "t", "a", "r", "t">>

CmdLearn == <<"/", "l", "e", "a", "r", "n">>

(***************************************************************************)
(* longest_common_substring                                                *)
(***************************************************************************)
\* dp[i][j]: length of the common run ending at s1[i-1], s2[j-1] (0-based)
RECURSIVE Dp(_, _, _, _)
Dp(s1, s2, i, j) ==
    IF i = 0 \/ j = 0 THEN 0
    ELSE IF s1[i] = s2[j] THEN Dp(s1, s2, i - 1, j - 1) + 1 ELSE 0

\* the two nested loops, cell by cell in row order, carrying <<max_len, end_pos>>
RECURSIVE LcsScan(_, _, _, _, _, _)
LcsScan(s1, s2, i, j, max_len, end_pos) ==
    IF i > Len(s1) THEN <<max_len, end_pos>>
    ELSE IF j > Len(s2) THEN LcsScan(s1, s2, i + 1, 1, max_len, end_pos)
    ELSE IF s1[i] = s2[j] /\ Dp(s1, s2, i, j) > max_len
         THEN LcsScan(s1, s2, i, j + 1, Dp(s1, s2, i, j), i)
         ELSE LcsScan(s1, s2, i, j + 1, max_len, end_pos)

\* mutation: the slice that recovers the run ignores end_pos
LcsSlicePrefix(s1, s2) ==
    LET r == LcsScan(s1, s2, 1, 1, 0, 0)
        max_len == r[1]
        end_pos == r[2]
    IN  IF max_len > 0 THEN SubSeq(s1, 1, max_len) ELSE <<>>

longest_common_substring(s1, s2) ==
    LET r == LcsScan(s1, s2, 1, 1, 0, 0)
        max_len == r[1]
        end_pos == r[2]
    IN  IF max_len > 0 THEN SubSeq(s1, end_pos - max_len + 1, end_pos) ELSE <<>>

(***************************************************************************)
(* learn_phrase and find_similar_phrases                                   *)
(***************************************************************************)
\* str(chat_number).replace('+', '').replace('-', '')
SafeChatId(chat_number) == RemoveAll(RemoveAll(IntStr(chat_number), <<"+">>), <<"-">>)

\* mutation: the argument is not trimmed
LearnedLineUntrimmed(phrase) == RemoveAll(phrase, CmdLearn)

\* the line learn_phrase writes for its argument; <<>> when it writes nothing
LearnedLine(phrase) == Strip(RemoveAll(phrase, CmdLearn))

\* dict/ after learn_phrase(phrase, chat_number); write_ok is FALSE when
\* opening or writing the file raises IOError
learn_phrase(d, phrase, chat_number, write_ok) ==
    LET safe_chat_id == SafeChatId(chat_number)
        line == LearnedLine(phrase)
    IN  IF line = <<>> \/ ~write_ok THEN d
        ELSE [d EXCEPT ![safe_chat_id] = Append(@, line)]

\* lower-cased, punctuation-free words of a text
Words(text) == SplitWords(StripPunctuation(Lower(text)))

\* mutation: any common run, the empty one included, is a hit
WordHitAnyRun(msg_word, phr_word) ==
    10 * Len(longest_common_substring(msg_word, phr_word)) >= 0

\* len(common) >= 0.8 * len(phr_word), in tenths
WordHit(msg_word, phr_word) ==
    10 * Len(longest_common_substring(msg_word, phr_word)) >= 8 * Len(phr_word)

RECURSIVE MsgWordLoop(_, _, _, _, _)
\* mutation: a hit starts matched_phrases afresh
MsgWordLoopReset(phrase, phrase_words, message_words, i, matched) ==
    IF i > Len(message_words) THEN matched
    ELSE LET hit == \E k \in 1..Len(phrase_words) :
                        WordHit(message_words[i], phrase_words[k])
             m2 == IF hit THEN <<phrase>> ELSE matched
         IN  IF phrase \in Range(m2) THEN m2
             ELSE MsgWordLoop(phrase, phrase_words, message_words, i + 1, m2)

\* the loop over message_words for one phrase
MsgWordLoop(phrase, phrase_words, message_words, i, matched) ==
    IF i > Len(message_words) THEN matched
    ELSE LET hit == \E k \in 1..Len(phrase_words) :
                        WordHit(message_words[i], phrase_words[k])
             m2 == IF hit THEN Append(matched, phrase) ELSE matched
         IN  IF phrase \in Range(m2) THEN m2
             ELSE MsgWordLoop(phrase, phrase_words, message_words, i + 1, m2)

\* the loop over phrases: matched_phrases at its end
RECURSIVE PhraseLoop(_, _, _, _)
PhraseLoop(phrases, k, message_words, matched) ==
    IF k > Len(phrases) THEN matched
    ELSE PhraseLoop(phrases, k + 1, message_words,
                    MsgWordLoop(phrases[k], Words(phrases[k]), message_words, 1, matched))

\* phrases = [line.strip() for line in f if line.strip()]
Phrases(d, chat_number) ==
    LET lines == FileLines(d[SafeChatId(chat_number)])
        stripped == [i \in 1..Len(lines) |-> Strip(lines[i])]
    IN  SelectSeq(stripped, LAMBDA l : l # <<>>)

matched_phrases(d, message, chat_number) ==
    PhraseLoop(Phrases(d, chat_number), 1, Words(message), <<>>)

\* the values find_similar_phrases can return (random.choice is any member);
\* read_ok is FALSE when reading the file raises IOError
find_similar_phrases(d, message, chat_number, read_ok) ==
    LET m == matched_phrases(d, message, chat_number)
    IN  IF ~read_ok \/ m = <<>> THEN {None}
        ELSE {Some(m[i]) : i \in 1..Len(m)}

(***************************************************************************)
(* process_message                                                         *)
(***************************************************************************)
\* parts[0].lower()
Command(message) == Lower(SplitFirstSpace(message)[1])

\* the branch of process_message a message takes
Route(message) ==
    IF ~StartsWith(message, <<"/">>) THEN "match"
    ELSE LET command == Command(message)
         IN  IF command = CmdHelp THEN "help"
             ELSE IF command = CmdStop THEN "stop"
             ELSE IF command = CmdStart THEN "start"
             ELSE IF command = CmdLearn /\ Len(SplitFirstSpace(message)) > 1 THEN "learn"
             ELSE "match"

\* dict/ after process_message
ProcessDict(d, message, chat_number, write_ok) ==
    IF Route(message) = "learn"
    THEN learn_phrase(d, SplitFirstSpace(message)[2], chat_number, write_ok)
    ELSE d

\* how the file write of learn_phrase ends: "not_called" when process_message
\* does not reach it or the phrase is empty
LearnOutcome(message, write_ok) ==
    IF Route(message) = "learn" /\ LearnedLine(SplitFirstSpace(message)[2]) # <<>>
    THEN IF write_ok THEN "written" ELSE "failed"
    ELSE "not_called"

\* the values process_message can return
process_message(d, message, chat_number, read_ok) ==
    LET route == Route(message)
    IN  CASE route = "help" -> {Some(HelpText)}
          [] route = "stop" -> {Some(StopText)}
          [] route = "start" -> {Some(StartText)}
          [] route = "learn" -> {Some(LearnedText)}
          [] OTHER -> find_similar_phrases(d, message, chat_number, read_ok)


(***************************************************************************)
(* Updates the server can deliver                                          *)
(***************************************************************************)
TxtStop == <<"/", "S", "T", "O", "P", " ", "n", "o", "w">>

TxtLearn == <<"/", "l", "e", "a", "r", "n", " ", "f", "o", "o", " ", "b", "a", "r", " ">>

TxtLearnNested == <<"/", "l", "e", "a", "r", "n", " ", "/", "l", "e", "a", "r", "n", " ", "u", "p">>

TxtLearnBlank == <<"/", "l", "e", "a", "r", "n", " ", " ">>

TxtOther == <<"/", "f", "o", "o">>

TxtFree == <<"F", "o", "o", "d", "!">>

Texts == {TxtStop, TxtLearn, TxtLearnNested, TxtLearnBlank, TxtOther, TxtFree}

\* chat ids: a private chat and a group chat whose ids differ in sign only
PrivateChat == 1

GroupChat == 0 - PrivateChat

\* an absent optional field of an update is None
\* has_message: 'message' in update; has_text: 'text' in update['message']
Payload(has_message, has_text, chat_id, chat_type, title, first_name, last_name, text) ==
    [has_message |-> has_message, has_text |-> has_text, chat_id |-> chat_id,
     chat_type |-> chat_type, title |-> title, first_name |-> first_name,
     last_name |-> last_name, from_id |-> chat_id, text |-> text]

\* text messages of a private chat, one of a group and one of a supergroup
\* without title, a message without text, an update without message
Payloads ==
    {Payload(TRUE, TRUE, PrivateChat, "private", None, Some(<<"A", "n">>), Some(<<"B">>), t) :
        t \in Texts}
    \cup {Payload(TRUE, TRUE, GroupChat, "group", Some(<<"G", "+", "1">>), Some(<<"A", "n">>), None, TxtFree),
          Payload(TRUE, TRUE, GroupChat, "supergroup", None, None, None, TxtFree),
          Payload(TRUE, FALSE, PrivateChat, "private", None, Some(<<"A", "n">>), None, <<>>),
          Payload(FALSE, FALSE, PrivateChat, "private", None, None, None, <<>>)}

ChatIds == {PrivateChat, GroupChat}

\* the files of dict/ are named by the sanitized chat id
ChatKeys == {SafeChatId(c) : c \in ChatIds}

\* dict.get(key, default) of an optional field
Get(field, default) == IF field.some THEN field.val ELSE default

(***************************************************************************)
(* extract_message_info and log_event                                      *)
(***************************************************************************)
\* f"{first_name} {last_name}".strip() or f"User {from_user.get('id', '')}"
UserName(u) ==
    LET full == Strip(Get(u.first_name, <<>>) \o <<" ">> \o Get(u.last_name, <<>>))
    IN  IF full # <<>> THEN full ELSE <<"U", "s", "e", "r", " ">> \o IntStr(u.from_id)

\* chat.get('title', f'Chat {chat_id}')
ChatTitle(u) == Get(u.title, <<"C", "h", "a", "t", " ">> \o IntStr(u.chat_id))

IsGroup(u) == u.chat_type = "group" \/ u.chat_type = "supergroup"

\* result "none": returns None; "raise": first_name and last_name are bound
\* only in the else branch of line 128, so line 139 raises UnboundLocalError
\* for a group or supergroup chat; "info": logs and returns the tuple
extract_message_info(u) ==
    IF ~u.has_message \/ ~u.has_text
    THEN [result |-> "none", text |-> <<>>, chat_id |-> 0, chat_name |-> <<>>, event |-> <<>>]
    ELSE IF IsGroup(u)
    THEN [result |-> "raise", text |-> u.text, chat_id |-> u.chat_id,
          chat_name |-> ChatTitle(u), event |-> <<>>]
    ELSE [result |-> "info", text |-> u.text, chat_id |-> u.chat_id,
          chat_name |-> UserName(u),
          event |-> <<"M", "e", "s", "s", "a", "g", "e", " ", "f", "r", "o", "m", " ">>
                    \o UserName(u) \o <<":", " ">> \o u.text]

\* the file name log_event derives from logname
SafeName(logname) ==
    LET kept == RStrip(SelectSeq(logname, LAMBDA c : IsAlnum(c) \/ c \in {" ", "-", "_"}))
    IN  IF kept = <<>> THEN <<"u", "n", "k", "n", "o", "w", "n">> ELSE kept

\* what log_event(text, logname) appends under chatlogs/ (the line without its
\* time stamp), or None; log_ok is FALSE when the write raises IOError
log_event(text, logname, log_ok) ==
    IF log_ok THEN Some([file |-> SafeName(logname), line |-> text]) ELSE None


(***************************************************************************)
(* State                                                                   *)
(***************************************************************************)
\* a bot process is named by its process id
Procs == 1..NumProcs

\* process ids that are not bot processes: one alive for the whole run, one dead
ForeignLivePid == NumProcs + 1

ForeignDeadPid == NumProcs + 2

\* contents of tmp/telebot.lock that are not a process id
NoLock == 0

EmptyLock == 0 - 1

\* text that names an entry of /proc ("self")
ProcEntryLock == 0 - 2

\* config['interval'] and config['offset']
Interval == 1

InitOffset == 0

VARIABLES
    pc,         \* where each process is in run()
    offset,     \* self.offset of each process
    lastReq,    \* params['offset'] of the process's last getUpdates request
    updates,    \* the value get_updates returned: None, or the list (its update ids)
    pending,    \* the updates of that list the for loop has not reached yet
    lastPoll,   \* how the getUpdates request of this iteration ended
    pidRead,    \* the pid read from the lock file at startup
    exitKind,   \* how run() came to end
    removal,    \* how the os.remove of the finally clause ended
    sleepFor,   \* the argument of the time.sleep in progress
    handled,    \* update ids extract_message_info was called on, in order
    done,       \* what the loop body did with the update it handled last in
                \* this iteration
    lock,       \* content of tmp/telebot.lock
    dict,       \* dict/<key>_words.dat: the strings written, per chat key
    call,       \* the last direct call of process_message: arguments and outcome
    lcs         \* the last direct call of longest_common_substring

vars == <<pc, offset, lastReq, updates, pending, lastPoll, pidRead, exitKind,
          removal, sleepFor, handled, done, lock, dict, call, lcs>>

procVars == <<offset, lastReq, updates, pending, lastPoll, handled, done>>

\* what only the direct calls of the methods change
fnVars == <<call, lcs>>

\* os.path.exists(f'/proc/{pid}') for the text read from the lock file:
\* '/proc/' itself exists, so the empty text passes
ProcExists(content) ==
    \/ content \in Procs /\ pc[content] \notin {"idle", "terminated"}
    \/ content = ForeignLivePid
    \/ content = EmptyLock
    \/ content = ProcEntryLock

\* the lock file a run can find: none, one a crash left empty, one holding
\* text, one holding the pid of a live or of a dead process
InitLocks == {NoLock, EmptyLock, ProcEntryLock, ForeignLivePid, ForeignDeadPid}

\* dict/ survives between runs: it holds a phrase learned earlier
InitDict == [k \in ChatKeys |-> <<<<"f", "o", "o">>>>]

\* the loop body has handled no update yet
NotDone ==
    [update_id |-> 0, result |-> "nothing", text |-> <<>>, chat_id |-> 0,
     chat_type |-> "none", log |-> None, wrote |-> "not_called", response |-> None,
     sent |-> "not_called"]

\* no call of process_message or longest_common_substring was made
NoCall ==
    [called |-> FALSE, message |-> <<>>, chat_number |-> 0, read_ok |-> TRUE,
     wrote |-> "not_called", response |-> None]

NoLcs == [called |-> FALSE, s1 |-> <<>>, s2 |-> <<>>, common |-> <<>>]

\* the fields of the bot processes after construction
InitProcs ==
    /\ offset = [p \in Procs |-> InitOffset]
    /\ lastReq = [p \in Procs |-> InitOffset]
    /\ updates = [p \in Procs |-> None]
    /\ pending = [p \in Procs |-> <<>>]
    /\ lastPoll = [p \in Procs |-> "none"]
    /\ pidRead = [p \in Procs |-> NoLock]
    /\ exitKind = [p \in Procs |-> "none"]
    /\ removal = [p \in Procs |-> "none"]
    /\ sleepFor = [p \in Procs |-> 0]
    /\ handled = [p \in Procs |-> <<>>]
    /\ done = [p \in Procs |-> NotDone]

InitCommon ==
    /\ InitProcs
    /\ dict = InitDict
    /\ call = NoCall
    /\ lcs = NoLcs

\* one bot process is started; the others never run. A lock file with the
\* pid of a dead process is left to InitLock: this run goes on from it as
\* from no lock file.
Init ==
    /\ InitCommon
    /\ lock \in InitLocks \ {ForeignDeadPid}
    /\ pc = [p \in Procs |-> IF p = 1 THEN "init" ELSE "idle"]

\* every bot process is started in the same directory
InitLock ==
    /\ InitCommon
    /\ lock \in InitLocks
    /\ pc = [p \in Procs |-> "init"]

(***************************************************************************)
(* run(): startup                                                          *)
(***************************************************************************)
\* line 270: os.path.exists(lock_file)
CheckLockFile(p) ==
    /\ pc[p] = "init"
    /\ pc' = [pc EXCEPT ![p] = IF lock # NoLock THEN "read_lock" ELSE "write_lock"]
    /\ UNCHANGED <<procVars, dict, pidRead, exitKind, removal, sleepFor, lock>>
    /\ UNCHANGED fnVars

\* lines 274-275: open and read; any exception is swallowed by line 280
ReadLock(p) ==
    /\ pc[p] = "read_lock"
    /\ \E read_ok \in BOOLEAN :
          IF read_ok /\ lock # NoLock
          THEN /\ pidRead' = [pidRead EXCEPT ![p] = lock]
               /\ pc' = [pc EXCEPT ![p] = "check_proc"]
          ELSE /\ pc' = [pc EXCEPT ![p] = "write_lock"]
               /\ UNCHANGED pidRead
    /\ UNCHANGED <<procVars, dict, exitKind, removal, sleepFor, lock>>
    /\ UNCHANGED fnVars

\* mutation: the liveness check is skipped
CheckProcStepBlind(p) ==
    /\ pc' = [pc EXCEPT ![p] = "write_lock"]
    /\ UNCHANGED exitKind

\* lines 277-279: the liveness check and the refusal to start
CheckProcStep(p) ==
    IF ProcExists(pidRead[p])
    THEN /\ pc' = [pc EXCEPT ![p] = "terminated"]
         /\ exitKind' = [exitKind EXCEPT ![p] = "refused"]
    ELSE /\ pc' = [pc EXCEPT ![p] = "write_lock"]
         /\ UNCHANGED exitKind

CheckProc(p) ==
    /\ pc[p] = "check_proc"
    /\ CheckProcStep(p)
    /\ UNCHANGED <<procVars, dict, pidRead, removal, sleepFor, lock>>
    /\ UNCHANGED fnVars

\* lines 284-289: write the own pid; IOError ends run
WriteLock(p) ==
    /\ pc[p] = "write_lock"
    /\ \E write_ok \in BOOLEAN :
          IF write_ok
          THEN /\ lock' = p
               /\ pc' = [pc EXCEPT ![p] = "running"]
               /\ UNCHANGED exitKind
          ELSE /\ pc' = [pc EXCEPT ![p] = "terminated"]
               /\ exitKind' = [exitKind EXCEPT ![p] = "lockfail"]
               /\ UNCHANGED lock
    /\ UNCHANGED <<procVars, dict, pidRead, removal, sleepFor>>
    /\ UNCHANGED fnVars

(***************************************************************************)
(* get_updates                                                             *)
(***************************************************************************)
\* mutation: the request repeats the cursor instead of passing it
RequestOffsetSame(o) == o

\* line 63: params['offset']
RequestOffset(o) == o + 1

\* lines 62-73: the request goes out; the long poll is in flight
SendRequest(p) ==
    /\ pc[p] = "running"
    /\ pc' = [pc EXCEPT ![p] = "polling"]
    /\ lastReq' = [lastReq EXCEPT ![p] = RequestOffset(offset[p])]
    /\ done' = [done EXCEPT ![p] = NotDone]
    /\ UNCHANGED <<offset, updates, pending, lastPoll, handled, dict, pidRead,
                   exitKind, removal, sleepFor, lock>>
    /\ UNCHANGED fnVars

\* a network error, a non-2xx status (raise_for_status) or a body that is not
\* JSON: lines 83-88 log it and return None
TransportFailures == {"network", "status", "json"}

\* mutation: a failed poll starts over from the configured offset
ReturnNoneReset(p, how) ==
    /\ updates' = [updates EXCEPT ![p] = None]
    /\ pending' = [pending EXCEPT ![p] = <<>>]
    /\ lastPoll' = [lastPoll EXCEPT ![p] = how]
    /\ offset' = [offset EXCEPT ![p] = InitOffset]

\* what get_updates leaves behind when it returns None
ReturnNone(p, how) ==
    /\ updates' = [updates EXCEPT ![p] = None]
    /\ pending' = [pending EXCEPT ![p] = <<>>]
    /\ lastPoll' = [lastPoll EXCEPT ![p] = how]
    /\ UNCHANGED offset

\* line 306: the loop goes to sleep for the interval
Sleep(p) ==
    /\ pc' = [pc EXCEPT ![p] = "sleeping"]
    /\ sleepFor' = [sleepFor EXCEPT ![p] = Interval]

\* mutation: an exception in the loop body ends the loop
BackoffFatal(p) ==
    /\ pc' = [pc EXCEPT ![p] = "shutting_down"]
    /\ UNCHANGED sleepFor

\* lines 311-313: the loop catches the exception and sleeps twice the interval
Backoff(p) ==
    /\ pc' = [pc EXCEPT ![p] = "backoff"]
    /\ sleepFor' = [sleepFor EXCEPT ![p] = Interval * 2]

PollFail(p) ==
    /\ pc[p] = "polling"
    /\ \E how \in TransportFailures : ReturnNone(p, how)
    /\ Sleep(p)
    /\ UNCHANGED <<lastReq, handled, done, dict, pidRead, exitKind, removal, lock>>
    /\ UNCHANGED fnVars

\* line 77: 'ok' is false or 'result' is empty: falls through to return None
PollEmpty(p) ==
    /\ pc[p] = "polling"
    /\ ReturnNone(p, "empty")
    /\ Sleep(p)
    /\ UNCHANGED <<lastReq, handled, done, dict, pidRead, exitKind, removal, lock>>
    /\ UNCHANGED fnVars

\* line 77: the body is JSON but not an object: data.get raises AttributeError,
\* which get_updates does not catch; the loop's `updates` keeps its value
PollUnexpected(p) ==
    /\ pc[p] = "polling"
    /\ lastPoll' = [lastPoll EXCEPT ![p] = "unexpected"]
    /\ Backoff(p)
    /\ UNCHANGED <<offset, lastReq, updates, pending, handled, done, dict, pidRead,
                   exitKind, removal, lock>>
    /\ UNCHANGED fnVars

\* line 80: the cursor after a batch
NewOffset(batch) == batch[Len(batch)].update_id

\* lines 77-81: the server answers with updates whose ids are at least the
\* requested offset, in increasing order of id
PollBatch(p) ==
    /\ pc[p] = "polling"
    /\ \E n \in 1..(MaxUpdateId + 1 - lastReq[p]) :
       \E ids \in {f \in [1..n -> lastReq[p]..MaxUpdateId] :
                      \A i, j \in 1..n : i < j => f[i] < f[j]} :
       \E pl \in [1..n -> Payloads] :
          LET batch == [i \in 1..n |-> [update_id |-> ids[i], payload |-> pl[i]]]
          IN  /\ updates' = [updates EXCEPT ![p] = Some(ids)]
              /\ pending' = [pending EXCEPT ![p] = batch]
              /\ offset' = [offset EXCEPT ![p] = NewOffset(batch)]
    /\ lastPoll' = [lastPoll EXCEPT ![p] = "batch"]
    /\ pc' = [pc EXCEPT ![p] = "processing"]
    /\ UNCHANGED <<lastReq, handled, done, dict, pidRead, exitKind, removal, sleepFor, lock>>
    /\ UNCHANGED fnVars

(***************************************************************************)
(* run(): the loop body                                                    *)
(***************************************************************************)
\* the for loop moves on; after the last update the loop goes to sleep
Advance(p) ==
    /\ pending' = [pending EXCEPT ![p] = Tail(@)]
    /\ IF Len(pending[p]) > 1
       THEN UNCHANGED <<pc, sleepFor>>
       ELSE Sleep(p)

\* an exception leaves the for loop: the rest of the list is dropped
Raise(p) ==
    /\ Backoff(p)
    /\ UNCHANGED pending

\* lines 303-304: whether the reply reaches the chat: "not_called" when there
\* is no reply (or an empty one); send_ok is FALSE when send_message catches
\* a RequestException
send_message(response, send_ok) ==
    IF response.some /\ response.val # <<>>
    THEN IF send_ok THEN "sent" ELSE "failed"
    ELSE "not_called"

\* the record of one handled update
Done(u, e, log, wrote, response, sent) ==
    [update_id |-> u.update_id, result |-> e.result, text |-> e.text,
     chat_id |-> e.chat_id, chat_type |-> u.payload.chat_type,
     log |-> log, wrote |-> wrote, response |-> response, sent |-> sent]

\* lines 298-304 for one update
ProcessUpdate(p) ==
    /\ pc[p] = "processing"
    /\ \E u \in {Head(pending[p])} :
       \E e \in {extract_message_info(u.payload)} :
          /\ handled' = [handled EXCEPT ![p] = Append(@, u.update_id)]
          /\ CASE e.result = "none" ->
                    /\ Advance(p)
                    /\ done' = [done EXCEPT ![p] =
                                   Done(u, e, None, "not_called", None, "not_called")]
                    /\ UNCHANGED dict
               [] e.result = "raise" ->
                    /\ Raise(p)
                    /\ done' = [done EXCEPT ![p] =
                                   Done(u, e, None, "not_called", None, "not_called")]
                    /\ UNCHANGED dict
               [] OTHER ->
                    \E read_ok \in BOOLEAN :
                    \E response \in process_message(dict, e.text, e.chat_id, read_ok) :
                    \E write_ok \in BOOLEAN :
                    \E wrote \in {LearnOutcome(e.text, write_ok)} :
                    \E log_ok, send_ok \in BOOLEAN :
                       /\ dict' = ProcessDict(dict, e.text, e.chat_id, write_ok)
                       /\ done' = [done EXCEPT ![p] =
                                      Done(u, e, log_event(e.event, e.chat_name, log_ok),
                                           wrote, response,
                                           send_message(response, send_ok))]
                       /\ Advance(p)
    /\ UNCHANGED <<offset, lastReq, updates, lastPoll, pidRead, exitKind, removal, lock>>
    /\ UNCHANGED fnVars

\* time.sleep returns: next iteration
WakeUp(p) ==
    /\ pc[p] \in {"sleeping", "backoff"}
    /\ pc' = [pc EXCEPT ![p] = "running"]
    /\ sleepFor' = [sleepFor EXCEPT ![p] = 0]
    /\ lastPoll' = [lastPoll EXCEPT ![p] = "none"]
    /\ UNCHANGED <<offset, lastReq, updates, pending, handled, done, dict, pidRead,
                   exitKind, removal, lock>>
    /\ UNCHANGED fnVars

\* mutation: the lock is released after the loop instead of in a finally
\* clause, so an exception that escapes the loop skips the release
InterruptExitNoFinally(p) ==
    /\ pc' = [pc EXCEPT ![p] = IF pc[p] = "backoff" THEN "terminated" ELSE "shutting_down"]
    /\ exitKind' = [exitKind EXCEPT ![p] = IF pc[p] = "backoff" THEN "escape" ELSE "break"]

\* KeyboardInterrupt. Inside the inner try (between iterations, during the
\* poll, while a batch is processed, during the normal sleep) line 308 catches
\* it and breaks; during the backoff sleep of line 313 it is raised inside the
\* except clause and escapes the loop. Both ways lead to the finally clause.
InterruptExit(p) ==
    /\ pc' = [pc EXCEPT ![p] = "shutting_down"]
    /\ exitKind' = [exitKind EXCEPT ![p] = IF pc[p] = "backoff" THEN "escape" ELSE "break"]

Interrupt(p) ==
    /\ pc[p] \in {"running", "polling", "processing", "sleeping", "backoff"}
    /\ InterruptExit(p)
    /\ sleepFor' = [sleepFor EXCEPT ![p] = 0]
    /\ UNCHANGED <<procVars, dict, pidRead, removal, lock>>
    /\ UNCHANGED fnVars

\* lines 315-321: os.remove(lock_file). It raises when the file is not there
\* (another instance removed it) or, remove_ok being FALSE, when the file
\* cannot be removed; the bare except swallows both
RemoveLock(p, remove_ok) ==
    IF remove_ok /\ lock # NoLock
    THEN /\ lock' = NoLock
         /\ removal' = [removal EXCEPT ![p] = "removed"]
    ELSE /\ removal' = [removal EXCEPT ![p] = "failed"]
         /\ UNCHANGED lock

Cleanup(p) ==
    /\ pc[p] = "shutting_down"
    /\ \E remove_ok \in BOOLEAN : RemoveLock(p, remove_ok)
    /\ pc' = [pc EXCEPT ![p] = "terminated"]
    /\ UNCHANGED <<procVars, dict, pidRead, exitKind, sleepFor>>
    /\ UNCHANGED fnVars

(***************************************************************************)
(* The static method longest_common_substring called directly              *)
(***************************************************************************)
\* the variables of run(), which a direct call of a method leaves alone
runVars == <<pc, offset, lastReq, updates, pending, lastPoll, pidRead, exitKind,
             removal, sleepFor, handled, done, lock>>

\* no bot process is started
InitNoRun ==
    /\ InitProcs
    /\ pc = [p \in Procs |-> "idle"]
    /\ lock = NoLock

\* the words the method is called with
Alphabet == {"a", "b", "c"}

WordsUpTo(n) == UNION {[1..k -> Alphabet] : k \in 0..n}

\* the arguments of the call are any two words
InitLcs ==
    /\ InitNoRun
    /\ dict = InitDict
    /\ call = NoCall
    /\ \E a, b \in WordsUpTo(MaxWordLen) : lcs = [NoLcs EXCEPT !.s1 = a, !.s2 = b]

\* lines 176-193: the call returns
CallLcs ==
    /\ ~lcs.called
    /\ lcs' = [lcs EXCEPT !.called = TRUE,
                          !.common = longest_common_substring(lcs.s1, lcs.s2)]
    /\ UNCHANGED <<runVars, dict, call>>

NextLcs == CallLcs

SpecLcs == InitLcs /\ [][NextLcs]_vars

(***************************************************************************)
(* process_message called directly, as the loop body calls it              *)
(***************************************************************************)
TxtLearnPunct == <<"/", "l", "e", "a", "r", "n", " ", "!", "!", "!">>

TxtBar == <<"b", "a", "r">>

TxtWordLearn == <<"l", "e", "a", "r", "n">>

TxtNoShare == <<"x", "y", "z">>

TxtTwoWords == <<"F", "o", "o", "d", ",", " ", "u", "p">>

\* the messages: /learn with phrases, with blanks and without argument, and
\* free text
StoreTexts ==
    {TxtLearn, TxtLearnNested, TxtLearnBlank, TxtLearnPunct, CmdLearn,
     TxtBar, TxtWordLearn, TxtNoShare, TxtTwoWords}

\* the messages that reach find_similar_phrases
MatchTexts == {t \in StoreTexts : Route(t) = "match"}

\* a third conversation
OtherChat == PrivateChat + 1

StoreChats == {PrivateChat, GroupChat, OtherChat}

StoreKeys == {SafeChatId(c) : c \in StoreChats}

\* number of strings written under dict/
TotalLines(d) == Cardinality(UNION {{<<k, i>> : i \in 1..Len(d[k])} : k \in DOMAIN d})

\* dict/ is empty: no chat has a corpus file yet
InitStore ==
    /\ InitNoRun
    /\ dict = [k \in StoreKeys |-> <<>>]
    /\ call = NoCall
    /\ lcs = NoLcs

\* lines 240-262 for one message of one chat. The file read of
\* find_similar_phrases and the file write of learn_phrase can fail only on
\* the branch that reaches them.
CallProcessMessage ==
    /\ \E message \in StoreTexts, chat_number \in StoreChats :
       \E route \in {Route(message)} :
       \E read_ok \in (IF route = "match" THEN BOOLEAN ELSE {TRUE}) :
       \E write_ok \in (IF route = "learn" THEN BOOLEAN ELSE {TRUE}) :
       \E d2 \in {ProcessDict(dict, message, chat_number, write_ok)} :
       \E response \in process_message(dict, message, chat_number, read_ok) :
          /\ d2 # dict => TotalLines(dict) < MaxPhrases
          /\ dict' = d2
          /\ call' = [called |-> TRUE, message |-> message, chat_number |-> chat_number,
                      read_ok |-> read_ok, wrote |-> LearnOutcome(message, write_ok),
                      response |-> response]
    /\ UNCHANGED <<runVars, lcs>>

NextStore == CallProcessMessage

SpecStore == InitStore /\ [][NextStore]_vars

(***************************************************************************)
(* Specifications                                                          *)
(***************************************************************************)
Startup(p) == CheckLockFile(p) \/ ReadLock(p) \/ CheckProc(p) \/ WriteLock(p)

Polling(p) == SendRequest(p) \/ PollFail(p) \/ PollEmpty(p) \/ PollUnexpected(p)

Ending(p) == WakeUp(p) \/ Interrupt(p) \/ Cleanup(p)

\* one bot process with everything it does
Next == \E p \in Procs : Startup(p) \/ Polling(p) \/ PollBatch(p) \/ ProcessUpdate(p) \/ Ending(p)

Spec == Init /\ [][Next]_vars

\* all bot processes started together; the lock protocol does not depend on
\* what the updates hold, so the server delivers none
NextLock == \E p \in Procs : Startup(p) \/ Polling(p) \/ Ending(p)

SpecLock == InitLock /\ [][NextLock]_vars


(***************************************************************************)
(* Properties                                                              *)
(***************************************************************************)
\* the states of the polling loop (RUNNING and ERROR_BACKOFF)
LoopStates == {"running", "polling", "processing", "sleeping", "backoff"}

\* number of times update id was handed to extract_message_info by p
TimesHandled(p, id) == Cardinality({i \in 1..Len(handled[p]) : handled[p][i] = id})

\* C1: the cursor of a process never decreases, whatever the polls return,
\* and every getUpdates request asks for the updates from cursor + 1 on.
C1_CursorMonotone ==
    [][\A p \in Procs :
          /\ offset'[p] >= offset[p]
          /\ (pc[p] = "running" /\ pc'[p] = "polling") => lastReq'[p] = offset[p] + 1]_vars

\* a poll that asked for cursor + 1 after a batch had moved the cursor failed
C1_Witness ==
    \E p \in Procs :
        /\ pc[p] = "sleeping"
        /\ offset[p] > InitOffset
        /\ lastPoll[p] \in TransportFailures
        /\ lastReq[p] = offset[p] + 1

\* C2: a poll that fails in transport (network error, non-2xx status, body
\* that is not JSON) returns None and leaves the cursor as it was.
C2_FailedPollKeepsCursor ==
    [][\A p \in Procs :
          (pc[p] = "polling" /\ pc'[p] = "sleeping" /\ lastPoll'[p] \in TransportFailures)
              => updates'[p] = None /\ offset'[p] = offset[p]]_vars

\* a poll failed after an earlier batch had moved the cursor
C2_Witness ==
    \E p \in Procs :
        /\ pc[p] = "sleeping"
        /\ lastPoll[p] \in TransportFailures
        /\ updates[p] = None
        /\ offset[p] > InitOffset

\* C3: once the loop is done with a batch (it sleeps, backs off or polls
\* again), every update of the batch was handled exactly once.
C3_EachUpdateOnce ==
    \A p \in Procs :
        (pc[p] \in {"sleeping", "backoff", "running", "polling"} /\ updates[p].some)
            => \A i \in 1..Len(updates[p].val) : TimesHandled(p, updates[p].val[i]) = 1

\* C4: at most one bot process is in the polling loop at any time.
C4_AtMostOneRunning == Cardinality({p \in Procs : pc[p] \in LoopStates}) <= 1

\* the text read from the lock file is the id of a process that has ended
DeadPid(content) ==
    content \in Procs \cup {ForeignLivePid, ForeignDeadPid} /\ ~ProcExists(content)

LivePid(content) ==
    content \in Procs \cup {ForeignLivePid, ForeignDeadPid} /\ ProcExists(content)

\* the part of C5 about a live process: the liveness check ends run, the lock
\* file is left alone and the process has not polled
C5_LiveRefused(p) ==
    /\ (pc[p] = "check_proc" /\ LivePid(pidRead[p]) /\ pc'[p] # "check_proc")
           => pc'[p] = "terminated" /\ exitKind'[p] = "refused" /\ lock' = lock
    /\ exitKind'[p] = "refused"
           => pc'[p] = "terminated" /\ lastReq'[p] = InitOffset

C6_Original ==
    [][\A p \in Procs :
          (pc[p] \in LoopStates \cup {"shutting_down"} /\ pc'[p] = "terminated")
              => lock' = NoLock]_vars

\* C6 amended: every way out of the loop runs the removal of the lock file
\* before TERMINATED; the file is gone when the removal succeeds, and a failed
\* removal is swallowed and leaves the file as it is.
C6_CleanupOnEveryExit ==
    [][\A p \in Procs :
          /\ (pc[p] \in LoopStates /\ pc'[p] \notin LoopStates) => pc'[p] = "shutting_down"
          /\ (pc[p] = "shutting_down" /\ pc'[p] # "shutting_down")
                 => /\ pc'[p] = "terminated"
                    /\ removal'[p] \in {"removed", "failed"}
                    /\ removal'[p] = "removed" => lock' = NoLock
                    /\ removal'[p] = "failed" => lock' = lock]_vars

\* an interrupt during the backoff sleep escaped the loop and the lock file
\* was removed on the way out
C6_Witness ==
    \E p \in Procs :
        /\ pc[p] = "terminated" /\ exitKind[p] = "escape"
        /\ removal[p] = "removed" /\ lock = NoLock

\* the step is one in which the loop of p caught an exception
Raised(p) ==
    \/ handled'[p] # handled[p] /\ done'[p].result = "raise"
    \/ pc[p] = "polling" /\ lastPoll'[p] = "unexpected" /\ updates'[p] = updates[p]
       /\ pc'[p] \notin {"polling", "sleeping", "processing"} /\ exitKind'[p] = exitKind[p]

C8_GroupMessageProcessed ==
    \A p \in Procs :
        (done[p].chat_type \in {"group", "supergroup"} /\ done[p].result # "none")
            => done[p].result = "info" /\ done[p].log.some

\* the message is a command other than /help, /start, /stop, /learn
UnknownCommand(text) ==
    StartsWith(text, <<"/">>) /\ Command(text) \notin {CmdHelp, CmdStart, CmdStop, CmdLearn}

\* C9: a message with an unknown command changes no corpus and no reply to it
\* reaches the chat.
C9_UnknownCommandSilent ==
    [][\A p \in Procs :
          (handled'[p] # handled[p] /\ done'[p].result = "info"
           /\ UnknownCommand(done'[p].text))
              => dict' = dict /\ done'[p].sent # "sent"]_vars

\* the text is '/learn P' with P not blank; LearnArg is P
IsLearn(text) == StartsWith(text, CmdLearn \o <<" ">>)

LearnArg(text) == SubSeq(text, Len(CmdLearn) + 2, Len(text))

\* C10: a batch of one private-chat update with id N and text '/learn P'
\* (P not blank) ends with P, trimmed, as the last line of the chat's corpus,
\* one reply with the confirmation text sent to the chat, and the cursor at N
\* (stated for the runs in which neither the file write nor the send fails).
C10_LearnEndToEnd ==
    [][\A p \in Procs :
          (/\ handled'[p] # handled[p]
           /\ Len(pending[p]) = 1 /\ Len(updates[p].val) = 1
           /\ Head(pending[p]).payload.chat_type = "private"
           /\ Head(pending[p]).payload.has_message /\ Head(pending[p]).payload.has_text
           /\ IsLearn(Head(pending[p]).payload.text)
           /\ Strip(LearnArg(Head(pending[p]).payload.text)) # <<>>
           /\ done'[p].wrote # "failed" /\ done'[p].sent # "failed")
              => LET u == Head(pending[p])
                     key == SafeChatId(u.payload.chat_id)
                 IN  /\ dict' = [dict EXCEPT ![key] =
                                    Append(@, Strip(LearnArg(u.payload.text)))]
                     /\ done'[p].response = Some(LearnedText)
                     /\ done'[p].sent = "sent"
                     /\ done'[p].chat_id = u.payload.chat_id
                     /\ offset'[p] = u.update_id
                     /\ pc'[p] = "sleeping"]_vars

\* the contiguous runs of s, the empty one included
Runs(s) == {<<>>} \cup {SubSeq(s, i, j) : i, j \in 1..Len(s)}

\* C13: longest_common_substring(a, b) is a contiguous run of both a and b,
\* no common contiguous run is longer, and it is empty exactly when a and b
\* share no character.
C13_LcsMaximalCommonRun ==
    lcs.called
        => /\ lcs.common \in Runs(lcs.s1) \cap Runs(lcs.s2)
           /\ \A r \in Runs(lcs.s1) \cap Runs(lcs.s2) : Len(r) <= Len(lcs.common)
           /\ lcs.common = <<>> <=> Range(lcs.s1) \cap Range(lcs.s2) = {}

\* the call returned a run of two characters that ends both words but starts
\* neither
C13_Witness ==
    /\ lcs.called
    /\ Len(lcs.common) = 2
    /\ Len(lcs.s1) = 3 /\ Len(lcs.s2) = 3
    /\ lcs.s1[1] # lcs.s2[1]
    /\ lcs.common = SubSeq(lcs.s1, 2, 3)

\* the argument of a /learn message: what follows the first space
LearnTail(text) == IF Len(SplitFirstSpace(text)) > 1 THEN SplitFirstSpace(text)[2] ELSE <<>>

\* the text is /learn followed by white space only, or by nothing
BlankLearn(text) ==
    /\ Len(text) >= Len(CmdLearn)
    /\ Lower(SubSeq(text, 1, Len(CmdLearn))) = CmdLearn
    /\ Strip(SubSeq(text, Len(CmdLearn) + 1, Len(text))) = <<>>

\* C11: a /learn message with only white space after the command leaves the
\* corpus of every chat as it was.
C11_BlankLearnNoOp ==
    [][(call'.called /\ BlankLearn(call'.message)) => dict' = dict]_vars

\* '/learn' followed by two spaces was answered while a corpus held a line,
\* and the corpora still hold that many lines
C11_Witness ==
    /\ call.called
    /\ call.message = TxtLearnBlank
    /\ call.response = Some(LearnedText)
    /\ TotalLines(dict) = MaxPhrases - 1
    /\ \E c \in StoreChats : Phrases(dict, c) # <<>>

\* C12: a /learn in chat A changes neither the corpus of any other chat B nor
\* the phrases that can be returned for a message in B.
C12_ChatIsolation ==
    [][\A b \in StoreChats :
          (call'.called /\ Route(call'.message) = "learn" /\ b # call'.chat_number)
              => /\ Phrases(dict', b) = Phrases(dict, b)
                 /\ \A m \in MatchTexts :
                        find_similar_phrases(dict', m, b, TRUE)
                            = find_similar_phrases(dict, m, b, TRUE)]_vars

\* C14: after '/learn P' in a chat, a free-text message in the same chat that
\* is one word of P (normalized) gets a reply (stated for the calls in which
\* neither the write of P nor the read of the corpus fails).
C14_LearnedWordMatches ==
    [][(/\ call.called /\ Route(call.message) = "learn" /\ call.wrote # "failed"
        /\ call'.called /\ call'.chat_number = call.chat_number
        /\ ~StartsWith(call'.message, <<"/">>) /\ call'.read_ok
        /\ call'.message \in Range(Words(LearnTail(call.message))))
           => /\ matched_phrases(dict', call'.message, call'.chat_number) # <<>>
              /\ call'.response.some]_vars

\* no word of the message has a character in common with a word of a phrase
NoSharedChar(message, phrases) ==
    \A i \in 1..Len(phrases) :
        \A w \in Range(Words(message)), v \in Range(Words(phrases[i])) :
            Range(w) \cap Range(v) = {}

\* C15: when no word of the message shares a character with a word of a
\* phrase of the chat's corpus, find_similar_phrases returns None; no phrase
\* word is empty, and a line without words is never a candidate.
C15_NoOverlapNoMatch ==
    (call.called /\ Route(call.message) = "match")
        => LET phrases == Phrases(dict, call.chat_number)
               m == matched_phrases(dict, call.message, call.chat_number)
           IN  /\ NoSharedChar(call.message, phrases) => m = <<>> /\ call.response = None
               /\ \A i \in 1..Len(phrases) : <<>> \notin Range(Words(phrases[i]))
               /\ \A i \in 1..Len(m) : Words(m[i]) # <<>>

\* a message got no reply from a corpus that holds a phrase of words and a
\* line of punctuation only, none of which shares a character with it
C15_Witness ==
    /\ call.called /\ call.message = TxtNoShare /\ call.read_ok
    /\ call.response = None
    /\ LET phrases == Phrases(dict, call.chat_number)
       IN  /\ NoSharedChar(call.message, phrases)
           /\ \E i \in 1..Len(phrases) : Words(phrases[i]) # <<>>
           /\ \E i \in 1..Len(phrases) : Words(phrases[i]) = <<>>

\* s is t or t with entries appended
IsPrefix(t, s) == Len(t) <= Len(s) /\ SubSeq(s, 1, Len(t)) = t

\* dict/ before the last string was written to the file of chat_number
BeforeLast(d, chat_number) ==
    [d EXCEPT ![SafeChatId(chat_number)] = SubSeq(@, 1, Len(@) - 1)]

\* C16: for every message, the candidates found in a corpus are still found,
\* in the same order, after one more phrase was appended to the corpus.
C16_MatchMonotone ==
    \A c \in StoreChats :
        dict[SafeChatId(c)] # <<>>
            => \A m \in MatchTexts :
                   IsPrefix(matched_phrases(BeforeLast(dict, c), m, c),
                            matched_phrases(dict, m, c))

\* a corpus found one candidate for a message before its last phrase was
\* appended and finds two after
C16_Witness ==
    \E c \in StoreChats :
        /\ Len(dict[SafeChatId(c)]) > 1
        /\ Len(matched_phrases(BeforeLast(dict, c), TxtTwoWords, c)) = 1
        /\ Len(matched_phrases(dict, TxtTwoWords, c)) = 2

\* the line qualifies: one of its words and one message word share a run of
\* at least 80% of the line word's length
Qualifies(line, message) ==
    \E w \in Range(Words(line)), mw \in Range(Words(message)) :
        10 * Len(longest_common_substring(mw, w)) >= 8 * Len(w)

\* C17: the candidate list is the sub-sequence of the corpus lines that
\* qualify, duplicates counted one by one; the result is None exactly when
\* the list is empty and a member of it otherwise (corpus read without error).
C17_CandidatesAreQualifyingLines ==
    (call.called /\ Route(call.message) = "match" /\ call.read_ok)
        => LET m == matched_phrases(dict, call.message, call.chat_number)
               q == SelectSeq(Phrases(dict, call.chat_number),
                              LAMBDA line : Qualifies(line, call.message))
           IN  /\ m = q
               /\ call.response = None <=> q = <<>>
               /\ call.response.some => call.response.val \in Range(q)

\* C18: '/learn R' with R not blank appends R, trimmed, to the chat's corpus,
\* also when R holds the text '/learn' (stated for writes that do not fail).
C18_LearnStoresArgument ==
    [][(/\ call'.called /\ Route(call'.message) = "learn"
        /\ Strip(LearnTail(call'.message)) # <<>>
        /\ call'.wrote # "failed")
           => dict' = [dict EXCEPT ![SafeChatId(call'.chat_number)] =
                          Append(@, Strip(LearnTail(call'.message)))]]_vars

\* C19: run refuses to start only when the lock file holds the id of a live
\* process; with any other content it goes on to write the lock file.
C19_RefusesOnlyLivePid ==
    [][\A p \in Procs :
          (pc[p] = "check_proc" /\ pc'[p] # "check_proc")
              => /\ exitKind'[p] = "refused" <=> LivePid(pidRead[p])
                 /\ ~LivePid(pidRead[p]) => pc'[p] = "write_lock"]_vars

\* C20: the confirmation is returned only for a message that made a line be
\* appended to the chat's corpus.
C20_ConfirmationMeansStored ==
    [][(call'.called /\ call'.response = Some(LearnedText))
           => /\ call'.wrote = "written"
              /\ Len(dict'[SafeChatId(call'.chat_number)])
                     = Len(dict[SafeChatId(call'.chat_number)]) + 1]_vars

====
